---- MODULE Spec2Model ----
(***************************************************************************)
(* Figma UI/UX Analysis Tool (src/main.py).                                *)
(*                                                                         *)
(* JSON values are modelled as follows: an object is a function from key   *)
(* strings to values, an array is a sequence, every scalar (string or      *)
(* number) is a string holding its text, and JSON null / Python None is    *)
(* the value Null.                                                         *)
(***************************************************************************)
EXTENDS Integers, Sequences, FiniteSets, TLC

VARIABLES
    pc,               \* where main() is
    args,             \* the parsed command line
    figma_token, gemini_key, file_key, node_id, figma_node, simplified_data,
    report_markdown,  \* main()'s local variables
    report_file,      \* the content of report.md
    exit_code,        \* the process's exit status, Null while it runs
    log,              \* the steps of main() that have run, with their outcome
    walk              \* the interpreter's call stack during a projection

vars == <<pc, args, figma_token, gemini_key, file_key, node_id, figma_node,
          simplified_data, report_markdown, report_file, exit_code, log,
          walk>>

-----------------------------------------------------------------------------
(* Python dictionaries *)

Null == "null"

EmptyDict == [k \in {} |-> Null]

\* `k in d`
Has(d, k) == k \in DOMAIN d

\* `d.get(k)`: the value, or None when the key is missing
Get(d, k) == IF k \in DOMAIN d THEN d[k] ELSE Null

\* `d[k] = v`
Put(d, k, v) == [x \in DOMAIN d \cup {k} |-> IF x = k THEN v ELSE d[x]]

\* d without the key k
Without(d, k) == [x \in DOMAIN d \ {k} |-> d[x]]

-----------------------------------------------------------------------------
(* simplify_node_data, one operator per block of the function; `s` is the  *)
(* dictionary `simplified` as the block finds it.                          *)

\* mutant: `name` read with .get(), so a missing name becomes None
MutBasicInfoDefaults(node, s) ==
    LET s1 == IF Has(node, "id") THEN Put(s, "id", node["id"]) ELSE s
        s2 == Put(s1, "name", Get(node, "name"))
        s3 == IF Has(node, "type") THEN Put(s2, "type", node["type"]) ELSE s2
    IN  s3

BasicInfo(node, s) ==
    LET s1 == IF Has(node, "id") THEN Put(s, "id", node["id"]) ELSE s
        s2 == IF Has(node, "name") THEN Put(s1, "name", node["name"]) ELSE s1
        s3 == IF Has(node, "type") THEN Put(s2, "type", node["type"]) ELSE s2
    IN  s3

\* mutant: the source box is copied as it is
MutBoundingBoxVerbatim(node, s) ==
    IF Has(node, "absoluteBoundingBox")
    THEN Put(s, "absoluteBoundingBox", node["absoluteBoundingBox"])
    ELSE s

BoundingBox(node, s) ==
    IF Has(node, "absoluteBoundingBox")
    THEN LET bbox == node["absoluteBoundingBox"]
         IN  Put(s, "absoluteBoundingBox",
                 [x |-> Get(bbox, "x"),
                  y |-> Get(bbox, "y"),
                  width |-> Get(bbox, "width"),
                  height |-> Get(bbox, "height")])
    ELSE s

Fills(node, s) ==
    IF Has(node, "fills") THEN Put(s, "fills", node["fills"]) ELSE s

\* mutant: only the sub-fields the source style has are emitted
MutTextStylePresentOnly(style) ==
    [k \in DOMAIN style \cap {"fontFamily", "fontWeight", "fontSize",
                              "letterSpacing", "lineHeightPx"} |-> style[k]]

TextStyle(style) ==
    [fontFamily |-> Get(style, "fontFamily"),
     fontWeight |-> Get(style, "fontWeight"),
     fontSize |-> Get(style, "fontSize"),
     letterSpacing |-> Get(style, "letterSpacing"),
     lineHeightPx |-> Get(style, "lineHeightPx")]

\* mutant: no test of the node's type
MutTextInfoUngated(node, s) ==
    LET s1 == IF Has(node, "characters")
              THEN Put(s, "characters", node["characters"]) ELSE s
        s2 == IF Has(node, "style")
              THEN Put(s1, "style", TextStyle(node["style"])) ELSE s1
    IN  s2

\* mutant: the text is emitted under the key `text`
MutTextInfoRenamed(node, s) ==
    IF Get(node, "type") = "TEXT"
    THEN LET s1 == IF Has(node, "characters")
                   THEN Put(s, "text", node["characters"]) ELSE s
             s2 == IF Has(node, "style")
                   THEN Put(s1, "style", TextStyle(node["style"])) ELSE s1
         IN  s2
    ELSE s

TextInfo(node, s) ==
    IF Get(node, "type") = "TEXT"
    THEN LET s1 == IF Has(node, "characters")
                   THEN Put(s, "characters", node["characters"]) ELSE s
             s2 == IF Has(node, "style")
                   THEN Put(s1, "style", TextStyle(node["style"])) ELSE s1
         IN  s2
    ELSE s

RECURSIVE simplify_node_data(_)

\* mutant: the children are emitted in reverse order
MutChildrenReversed(node, s) ==
    IF Has(node, "children") /\ Len(node["children"]) > 0
    THEN Put(s, "children",
             [i \in 1..Len(node["children"]) |->
                 simplify_node_data(
                     node["children"][Len(node["children"]) + 1 - i])])
    ELSE s

\* mutant: no test that the children list is non-empty
MutChildrenKeepEmpty(node, s) ==
    IF Has(node, "children")
    THEN Put(s, "children",
             [i \in 1..Len(node["children"]) |->
                 simplify_node_data(node["children"][i])])
    ELSE s

Children(node, s) ==
    IF Has(node, "children") /\ Len(node["children"]) > 0
    THEN Put(s, "children",
             [i \in 1..Len(node["children"]) |->
                 simplify_node_data(node["children"][i])])
    ELSE s

\* mutant: `simplified` starts as a copy of the node's own attributes
MutSimplifyFromCopy(node) ==
    Children(node,
      TextInfo(node,
        Fills(node,
          BoundingBox(node,
            BasicInfo(node, Without(node, "children"))))))

simplify_node_data(node) ==
    Children(node,
      TextInfo(node,
        Fills(node,
          BoundingBox(node,
            BasicInfo(node, EmptyDict)))))

-----------------------------------------------------------------------------
(* Trees *)

\* the positions of a tree: the sequences of child indexes leading to a node
RECURSIVE Paths(_)
Paths(t) ==
    {<<>>} \cup
    (IF Has(t, "children")
     THEN UNION {{<<i>> \o p : p \in Paths(t["children"][i])} :
                    i \in 1..Len(t["children"])}
     ELSE {})

RECURSIVE NodeAt(_, _)
NodeAt(t, p) ==
    IF p = <<>> THEN t ELSE NodeAt(t["children"][Head(p)], Tail(p))

Max(S) == CHOOSE m \in S : \A x \in S : x <= m

\* the number of levels of a tree
Depth(t) == 1 + Max({Len(p) : p \in Paths(t)})

-----------------------------------------------------------------------------
(* Bounded RawNode trees *)

MaxDepth == 3
MaxChildren == 2

\* an optional field: <<>> when the field is absent, <<v>> when it holds v
Opt(S) == {<<>>} \cup {<<v>> : v \in S}

Field(k, o) == IF o = <<>> THEN EmptyDict ELSE [x \in {k} |-> o[1]]

\* the object with the keys K, each holding vals[k]
Obj(K, vals) == [k \in K |-> vals[k]]

BBoxVals == [x |-> "10", y |-> "20", width |-> "40", height |-> "30",
             rotation |-> "0"]

\* source boxes: some sub-fields missing, one null, one unrecognized
BBoxes ==
    {Obj(K, BBoxVals) : K \in {{}, {"x", "y"}, {"x", "y", "width", "height"},
                               {"width", "height", "rotation"}}}
    \cup {[x |-> "10", y |-> "20", width |-> Null, height |-> "30"]}

StyleVals == [fontFamily |-> "Inter", fontWeight |-> "400", fontSize |-> "12",
              letterSpacing |-> "0", lineHeightPx |-> "14",
              textAlignHorizontal |-> "LEFT"]

Styles ==
    {Obj(K, StyleVals) : K \in {{}, {"fontSize"},
                                {"fontFamily", "fontWeight", "fontSize",
                                 "letterSpacing", "lineHeightPx"},
                                {"fontFamily", "lineHeightPx",
                                 "textAlignHorizontal"}}}

FillsVals == {<<>>, <<[type |-> "SOLID"]>>}

\* nodes without a `children` key
FlatNodes ==
    {Field("id", i) @@ Field("name", n) @@ Field("type", t)
       @@ Field("absoluteBoundingBox", b) @@ Field("fills", f)
       @@ Field("characters", c) @@ Field("style", s)
       @@ Field("visible", v) :
         i \in Opt({"1"}), n \in Opt({"Button"}),
         t \in Opt({"TEXT", "RECTANGLE"}), b \in Opt(BBoxes),
         f \in Opt(FillsVals), c \in Opt({"Hi"}), s \in Opt(Styles),
         v \in Opt({"true"})}

\* the nodes that nested trees are built from
InnerNodes ==
    {EmptyDict,
     [id |-> "1", name |-> "Button", type |-> "RECTANGLE",
      absoluteBoundingBox |-> [x |-> "10", y |-> "20"],
      fills |-> <<[type |-> "SOLID"]>>, characters |-> "Hi",
      style |-> [fontSize |-> "12"], visible |-> "true"],
     [id |-> "2", type |-> "TEXT", characters |-> "Hi",
      style |-> [fontSize |-> "12", textAlignHorizontal |-> "LEFT"]],
     [name |-> "Group", characters |-> "Hi", style |-> [fontSize |-> "12"]]}

SeqsUpTo(S, n) == UNION {[1..m -> S] : m \in 1..n}

\* trees of at most d levels with one child per level
RECURSIVE Chains(_)
Chains(d) ==
    IF d <= 1
    THEN InnerNodes \cup {Put(f, "children", <<>>) : f \in InnerNodes}
    ELSE Chains(1) \cup
         {Put(f, "children", <<c>>) : f \in InnerNodes, c \in Chains(d - 1)}

\* trees whose root has up to MaxChildren children
WideTrees ==
    {Put(f, "children", cs) :
        f \in InnerNodes, cs \in SeqsUpTo(Chains(1) \cup
            {Put(EmptyDict, "children", <<[id |-> "3"]>>)}, MaxChildren)}

RawNodes ==
    FlatNodes
    \cup {Put(f, "children", <<>>) : f \in FlatNodes}
    \cup Chains(MaxDepth)
    \cup WideTrees

-----------------------------------------------------------------------------
(* main(): one action per step, the step's callee included *)

\* Python truthiness of a string or None
Truthy(v) == v # Null /\ v # ""

\* `a or b`
Or(a, b) == IF Truthy(a) THEN a ELSE b

NoArgs == [check |-> FALSE, file_key |-> Null, node_id |-> Null]

\* report.md before the run: absent, or left by an earlier run
Absent == "absent"
OldReport == "# old report"

EnvVals == {Null, "", "set"}
FileKeys == {Null, "KEY"}
NodeIds == {Null, "1:2"}
\* what input().strip() gives on a terminal: <<>> when it raises EOFError
Typed(S) == {<<>>} \cup {<<v>> : v \in (S \ {Null}) \cup {""}}

\* mutant: the failure is reported and the step is tried again
MutFailAndRetry(stage) ==
    /\ pc' = pc
    /\ exit_code' = exit_code
    /\ log' = Append(log, [stage |-> stage, result |-> "failed"])

\* the step `stage` ends the run with a failure exit
Fail(stage) ==
    /\ pc' = "exit"
    /\ exit_code' = "1"
    /\ log' = Append(log, [stage |-> stage, result |-> "failed"])

\* the step `stage` completed and main() goes on at `next`
Pass(stage, next) ==
    /\ pc' = next
    /\ exit_code' = exit_code
    /\ log' = Append(log, [stage |-> stage, result |-> "ok"])

ParseArgs ==
    /\ pc = "parse_args"
    /\ \E c \in BOOLEAN, fk \in FileKeys, nid \in NodeIds :
         /\ args' = [check |-> c, file_key |-> fk, node_id |-> nid]
         /\ IF c
            THEN pc' = "done" /\ exit_code' = "0"
            ELSE pc' = "load_env_vars" /\ exit_code' = exit_code
    /\ UNCHANGED <<figma_token, gemini_key, file_key, node_id, figma_node,
                   simplified_data, report_markdown, report_file, log, walk>>

LoadEnvVars ==
    /\ pc = "load_env_vars"
    /\ \E ft \in EnvVals, gk \in EnvVals :
         IF ~Truthy(ft) \/ ~Truthy(gk)
         THEN /\ Fail("load_env_vars")
              /\ UNCHANGED <<figma_token, gemini_key>>
         ELSE /\ figma_token' = ft
              /\ gemini_key' = gk
              /\ Pass("load_env_vars", "arguments")
    /\ UNCHANGED <<args, file_key, node_id, figma_node, simplified_data,
                   report_markdown, report_file, walk>>

Arguments ==
    /\ pc = "arguments"
    /\ \E envFk \in FileKeys, envNid \in NodeIds, isatty \in BOOLEAN,
          typedFk \in Typed(FileKeys), typedNid \in Typed(NodeIds) :
         LET fk0 == Or(args.file_key, envFk)
             nid0 == Or(args.node_id, envNid)
             askFk == ~Truthy(fk0) /\ isatty
             askNid == ~Truthy(nid0) /\ isatty
             fk1 == IF askFk /\ typedFk # <<>> THEN typedFk[1] ELSE fk0
             nid1 == IF askNid /\ typedNid # <<>> THEN typedNid[1] ELSE nid0
             eof == (askFk /\ typedFk = <<>>) \/ (askNid /\ typedNid = <<>>)
         IN  IF eof \/ ~Truthy(fk1) \/ ~Truthy(nid1)
             THEN /\ Fail("arguments")
                  /\ UNCHANGED <<file_key, node_id>>
             ELSE /\ file_key' = fk1
                  /\ node_id' = nid1
                  /\ Pass("arguments", "fetch")
    /\ UNCHANGED <<args, figma_token, gemini_key, figma_node, simplified_data,
                   report_markdown, report_file, walk>>

\* the documents the design-file API serves
Documents ==
    {[id |-> "1:2", name |-> "Frame", type |-> "FRAME",
      children |-> <<[id |-> "2", type |-> "TEXT", characters |-> "Hi",
                      style |-> [fontSize |-> "12"]]>>],
     [id |-> "1:2", type |-> "RECTANGLE", visible |-> "true",
      absoluteBoundingBox |-> [x |-> "10", y |-> "20"]]}

\* what `response.json()` gives: <<>> when the body is no JSON, <<v>> for
\* the object v; an entry of "nodes" is <<>> for null, <<e>> for the object e
ResponseJson(nid) ==
    {<<>>, <<EmptyDict>>, <<[nodes |-> EmptyDict]>>}
    \cup {<<[nodes |-> [k \in {nid} |-> e]]>> :
            e \in {<<>>, <<EmptyDict>>, <<[document |-> EmptyDict]>>}
                  \cup {<<[document |-> d]>> : d \in Documents}}

\* requests.get: raised is TRUE when it raises a RequestException
Responses(nid) ==
    {[raised |-> TRUE, status_code |-> "0", json |-> <<>>]}
    \cup {[raised |-> FALSE, status_code |-> c, json |-> j] :
            c \in {"200", "404"}, j \in ResponseJson(nid)}

\* fetch_figma_data's result on the response r: <<>> when it ends the run,
\* <<document>> when it returns.  The run ends by SystemExit(1) or, for a
\* body that is no JSON (in the builds whose JSON error is no
\* RequestException) and for a null entry of "nodes" (None has no .get), by
\* an uncaught exception: exit status 1 either way.
fetch_figma_data(nid, r) ==
    IF r.raised THEN <<>>
    ELSE IF r.status_code # "200" THEN <<>>
    ELSE IF r.json = <<>> THEN <<>>
    ELSE LET response_json == r.json[1]
         IN  IF ~Has(response_json, "nodes")
                \/ ~Has(response_json["nodes"], nid) THEN <<>>
             ELSE IF response_json["nodes"][nid] = <<>> THEN <<>>
             ELSE LET entry == response_json["nodes"][nid][1]
                  IN  IF ~Has(entry, "document") THEN <<>>
                      ELSE IF entry["document"] = EmptyDict THEN <<>>
                      ELSE <<entry["document"]>>

Fetch ==
    /\ pc = "fetch"
    /\ \E r \in Responses(node_id) :
         LET got == fetch_figma_data(node_id, r)
         IN  IF got = <<>>
             THEN Fail("fetch") /\ figma_node' = figma_node
             ELSE Pass("fetch", "simplify") /\ figma_node' = got[1]
    /\ UNCHANGED <<args, figma_token, gemini_key, file_key, node_id,
                   simplified_data, report_markdown, report_file, walk>>

\* CPython's default recursion limit, the largest depth of the call stack;
\* main.py never calls sys.setrecursionlimit
RecursionLimit == 1000

\* the frames under the outermost simplify_node_data: the module's and main's
BaseFrames == 2

\* the deepest call stack while `node` is projected: one frame per level and,
\* in the builds that run a list comprehension in a frame of its own
\* (CPython before 3.12), one more between two levels
PeakFrames(node, listcomp) ==
    BaseFrames + Depth(node) + (IF listcomp THEN Depth(node) - 1 ELSE 0)

\* the uncaught RecursionError of a tree too deep ends the run
Simplify ==
    /\ pc = "simplify"
    /\ \E listcomp \in BOOLEAN :
         IF PeakFrames(figma_node, listcomp) > RecursionLimit
         THEN Fail("simplify") /\ simplified_data' = simplified_data
         ELSE /\ simplified_data' = simplify_node_data(figma_node)
              /\ Pass("simplify", "generate")
    /\ UNCHANGED <<args, figma_token, gemini_key, file_key, node_id,
                   figma_node, report_markdown, report_file, walk>>

\* the model's answers: <<>> when the call raises, <<text>> otherwise
ModelAnswers == {<<>>, <<Null>>, <<"">>, <<"# report">>}

\* analyze_design_with_gemini's result: <<>> when it ends the run
analyze_design_with_gemini(answer) ==
    IF answer = <<>> THEN <<>>
    ELSE IF ~Truthy(answer[1]) THEN <<>>
    ELSE <<answer[1]>>

Generate ==
    /\ pc = "generate"
    /\ \E answer \in ModelAnswers :
         LET got == analyze_design_with_gemini(answer)
         IN  IF got = <<>>
             THEN Fail("generate") /\ report_markdown' = report_markdown
             ELSE Pass("generate", "write") /\ report_markdown' = got[1]
    /\ UNCHANGED <<args, figma_token, gemini_key, file_key, node_id,
                   figma_node, simplified_data, report_file, walk>>

\* open("report.md", "w") and f.write: open may fail and leave the file as
\* it was, write may fail and leave the file truncated
Write ==
    /\ pc = "write"
    /\ \E outcome \in {"open_failed", "write_failed", "written"} :
         IF outcome = "open_failed"
         THEN Fail("write") /\ report_file' = report_file
         ELSE IF outcome = "write_failed"
         THEN Fail("write") /\ report_file' = ""
         ELSE /\ report_file' = report_markdown
              /\ pc' = "done"
              /\ exit_code' = "0"
              /\ log' = Append(log, [stage |-> "write", result |-> "ok"])
    /\ UNCHANGED <<args, figma_token, gemini_key, file_key, node_id,
                   figma_node, simplified_data, report_markdown, walk>>

\* no projection is being traced
Idle == [depth |-> 0, level |-> 0, frames |-> 0, state |-> "idle",
         listcomp |-> FALSE]

Init ==
    /\ pc = "parse_args"
    /\ args = NoArgs
    /\ figma_token = Null
    /\ gemini_key = Null
    /\ file_key = Null
    /\ node_id = Null
    /\ figma_node = EmptyDict
    /\ simplified_data = EmptyDict
    /\ report_markdown = Null
    /\ report_file \in {Absent, OldReport}
    /\ exit_code = Null
    /\ log = <<>>
    /\ walk = Idle

Next ==
    \/ ParseArgs
    \/ LoadEnvVars
    \/ Arguments
    \/ Fetch
    \/ Simplify
    \/ Generate
    \/ Write

Spec == Init /\ [][Next]_vars

\* the projector alone, on every bounded RawNode tree
ProjInit ==
    /\ pc = "simplify"
    /\ args = [check |-> FALSE, file_key |-> "KEY", node_id |-> "1:2"]
    /\ figma_token = "set"
    /\ gemini_key = "set"
    /\ file_key = "KEY"
    /\ node_id = "1:2"
    /\ figma_node \in RawNodes
    /\ simplified_data = EmptyDict
    /\ report_markdown = Null
    /\ report_file = Absent
    /\ exit_code = Null
    /\ log = <<[stage |-> "load_env_vars", result |-> "ok"],
               [stage |-> "arguments", result |-> "ok"],
               [stage |-> "fetch", result |-> "ok"]>>
    /\ walk = Idle

ProjNext == Simplify

ProjSpec == ProjInit /\ [][ProjNext]_vars

-----------------------------------------------------------------------------
(* The call stack of simplify_node_data on a tree of walk.depth levels with *)
(* one child per level, one step per frame.  walk.level is the level of    *)
(* the node of the innermost call, walk.frames the depth of the stack.     *)

MaxChainDepth == 1000

ChainDepths == {1, 2, 3, 500, MaxChainDepth}

\* the interpreter enters a frame, or raises when that exceeds the limit
Enter(w, state) ==
    IF w.frames >= RecursionLimit
    THEN [w EXCEPT !.state = "RecursionError"]
    ELSE [w EXCEPT !.frames = @ + 1, !.state = state]

\* simplify_node_data is called on the node at walk.level; down to the test
\* of `children` its body calls no Python function
WalkCall ==
    /\ walk.state = "call"
    /\ walk' = Enter(walk, IF walk.level < walk.depth
                           THEN "children" ELSE "return")
    /\ UNCHANGED <<pc, args, figma_token, gemini_key, file_key, node_id,
                   figma_node, simplified_data, report_markdown, report_file,
                   exit_code, log>>

\* the list comprehension over the node's one child
WalkChildren ==
    /\ walk.state = "children"
    /\ walk' = IF walk.listcomp
               THEN LET w == Enter(walk, "call")
                    IN  IF w.state = "call"
                        THEN [w EXCEPT !.level = @ + 1] ELSE w
               ELSE [walk EXCEPT !.level = @ + 1, !.state = "call"]
    /\ UNCHANGED <<pc, args, figma_token, gemini_key, file_key, node_id,
                   figma_node, simplified_data, report_markdown, report_file,
                   exit_code, log>>

\* `return simplified`: the call's frame is left, and with it the frame of
\* the comprehension that made the call
WalkReturn ==
    /\ walk.state = "return"
    /\ walk' = IF walk.level = 1
               THEN [walk EXCEPT !.frames = @ - 1, !.level = 0,
                                 !.state = "returned"]
               ELSE [walk EXCEPT
                       !.frames = @ - 1 - (IF walk.listcomp THEN 1 ELSE 0),
                       !.level = @ - 1]
    /\ UNCHANGED <<pc, args, figma_token, gemini_key, file_key, node_id,
                   figma_node, simplified_data, report_markdown, report_file,
                   exit_code, log>>

WalkInit ==
    /\ pc = "simplify"
    /\ args = [check |-> FALSE, file_key |-> "KEY", node_id |-> "1:2"]
    /\ figma_token = "set"
    /\ gemini_key = "set"
    /\ file_key = "KEY"
    /\ node_id = "1:2"
    /\ figma_node = EmptyDict
    /\ simplified_data = EmptyDict
    /\ report_markdown = Null
    /\ report_file = Absent
    /\ exit_code = Null
    /\ log = <<>>
    /\ \E d \in ChainDepths, lc \in BOOLEAN :
         walk = [depth |-> d, level |-> 1, frames |-> BaseFrames,
                 state |-> "call", listcomp |-> lc]

WalkNext ==
    \/ WalkCall
    \/ WalkChildren
    \/ WalkReturn

WalkSpec == WalkInit /\ [][WalkNext]_vars

-----------------------------------------------------------------------------
(* Reading the log and the trees *)

\* the step `stage` has run and completed
Did(stage) ==
    \E i \in 1..Len(log) : log[i].stage = stage /\ log[i].result = "ok"

Projected == Did("simplify")

\* the positions present in the source tree and in the projected tree
BothPaths == Paths(figma_node) \cap Paths(simplified_data)

NodeKeys == {"id", "name", "type", "absoluteBoundingBox", "fills",
             "characters", "style", "children"}
BBoxKeys == {"x", "y", "width", "height"}
StyleKeys == {"fontFamily", "fontWeight", "fontSize", "letterSpacing",
              "lineHeightPx"}

-----------------------------------------------------------------------------
(* The projector's properties *)

\* C1: structure preservation. At every position of the source tree the
\* projected tree has a node; where the source node has a non-empty children
\* list, the projected node has a children list of the same length whose
\* i-th element is the projection of the i-th source child; the two trees
\* have the same positions and the same depth.
C1_StructurePreserved ==
    Projected =>
      /\ Paths(simplified_data) = Paths(figma_node)
      /\ Depth(simplified_data) = Depth(figma_node)
      /\ \A p \in BothPaths :
            LET src == NodeAt(figma_node, p)
                out == NodeAt(simplified_data, p)
            IN  (Has(src, "children") /\ Len(src["children"]) > 0) =>
                  /\ Has(out, "children")
                  /\ Len(out["children"]) = Len(src["children"])
                  /\ \A i \in 1..Len(src["children"]) :
                        out["children"][i] =
                            simplify_node_data(src["children"][i])

\* a three-level tree with one child per level has been projected: children
\* at levels 0 and 1, none at level 2
C1_Witness ==
    /\ Projected
    /\ Depth(figma_node) = 3
    /\ Paths(figma_node) = {<<>>, <<1>>, <<1, 1>>}
    /\ Has(simplified_data, "children")
    /\ Has(NodeAt(simplified_data, <<1>>), "children")
    /\ ~Has(NodeAt(simplified_data, <<1, 1>>), "children")

\* C2: field gating. A node at any depth whose type is not "TEXT" (or that
\* has no type) is projected without `characters` and without `style`.
C2_FieldGating ==
    Projected =>
      \A p \in BothPaths :
        LET src == NodeAt(figma_node, p)
            out == NodeAt(simplified_data, p)
        IN  Get(src, "type") # "TEXT" =>
              ~Has(out, "characters") /\ ~Has(out, "style")

\* a nested non-TEXT node that supplied both fields has been projected
C2_Witness ==
    /\ Projected
    /\ \E p \in BothPaths :
        /\ Len(p) >= 1
        /\ Get(NodeAt(figma_node, p), "type") = "RECTANGLE"
        /\ Has(NodeAt(figma_node, p), "characters")
        /\ Has(NodeAt(figma_node, p), "style")
        /\ ~Has(NodeAt(simplified_data, p), "characters")

\* C3: id, name, type and fills are in the projected node exactly when they
\* are in the source node, with the source's value.
C3_PassThrough ==
    Projected =>
      \A p \in BothPaths :
        LET src == NodeAt(figma_node, p)
            out == NodeAt(simplified_data, p)
        IN  \A k \in {"id", "name", "type", "fills"} :
              /\ Has(out, k) <=> Has(src, k)
              /\ Has(src, k) => out[k] = src[k]

\* a node with id and fills but neither name nor type has been projected
C3_Witness ==
    /\ Projected
    /\ Has(figma_node, "id") /\ Has(figma_node, "fills")
    /\ ~Has(figma_node, "name") /\ ~Has(figma_node, "type")
    /\ simplified_data["fills"] = <<[type |-> "SOLID"]>>
    /\ ~Has(simplified_data, "name")

\* C4: the projected node has absoluteBoundingBox exactly when the source
\* has it, with exactly the keys x, y, width, height, each the source's
\* value or Null when the source box lacks it.
C4_BoundingBox ==
    Projected =>
      \A p \in BothPaths :
        LET src == NodeAt(figma_node, p)
            out == NodeAt(simplified_data, p)
        IN  /\ Has(out, "absoluteBoundingBox") <=>
                 Has(src, "absoluteBoundingBox")
            /\ Has(src, "absoluteBoundingBox") =>
                 /\ DOMAIN out["absoluteBoundingBox"] = BBoxKeys
                 /\ \A k \in BBoxKeys :
                      out["absoluteBoundingBox"][k] =
                        IF Has(src["absoluteBoundingBox"], k)
                        THEN src["absoluteBoundingBox"][k] ELSE Null

\* the box {x: 10, y: 20} has been projected to
\* {x: 10, y: 20, width: null, height: null}
C4_Witness ==
    /\ Projected
    /\ Has(figma_node, "absoluteBoundingBox")
    /\ figma_node["absoluteBoundingBox"] = [x |-> "10", y |-> "20"]
    /\ simplified_data["absoluteBoundingBox"] =
         [x |-> "10", y |-> "20", width |-> Null, height |-> Null]

\* C5: a source node whose children are absent or empty is projected
\* without a children key, an empty children list gives the projection of
\* the same node without the key, and no projected node has an empty
\* children list.
C5_EmptyChildrenCollapse ==
    Projected =>
      /\ \A p \in BothPaths :
           LET src == NodeAt(figma_node, p)
               out == NodeAt(simplified_data, p)
           IN  (~Has(src, "children") \/ src["children"] = <<>>) =>
                 /\ ~Has(out, "children")
                 /\ out = simplify_node_data(Without(src, "children"))
      /\ \A p \in Paths(simplified_data) :
           LET out == NodeAt(simplified_data, p)
           IN  Has(out, "children") => out["children"] # <<>>

\* a nested node with children = [] has been projected
C5_Witness ==
    /\ Projected
    /\ \E p \in BothPaths :
        /\ Len(p) >= 1
        /\ Has(NodeAt(figma_node, p), "children")
        /\ NodeAt(figma_node, p)["children"] = <<>>
        /\ ~Has(NodeAt(simplified_data, p), "children")

\* C6: a TEXT node is projected with characters exactly when the source has
\* it (same value) and with style exactly when the source has it; the
\* projected style has exactly the five style keys, each the source's value
\* or Null when the source style lacks it.
C6_TextProjection ==
    Projected =>
      \A p \in BothPaths :
        LET src == NodeAt(figma_node, p)
            out == NodeAt(simplified_data, p)
        IN  Get(src, "type") = "TEXT" =>
              /\ Has(out, "characters") <=> Has(src, "characters")
              /\ Has(src, "characters") =>
                   out["characters"] = src["characters"]
              /\ Has(out, "style") <=> Has(src, "style")
              /\ Has(src, "style") =>
                   /\ DOMAIN out["style"] = StyleKeys
                   /\ \A k \in StyleKeys :
                        out["style"][k] =
                          IF Has(src["style"], k)
                          THEN src["style"][k] ELSE Null

\* the TEXT node {characters: "Hi", style: {fontSize: 12}} has been projected
C6_Witness ==
    /\ Projected
    /\ Get(figma_node, "type") = "TEXT"
    /\ Has(figma_node, "characters") /\ Has(figma_node, "style")
    /\ figma_node["style"] = [fontSize |-> "12"]
    /\ simplified_data["characters"] = "Hi"
    /\ simplified_data["style"] =
         [fontFamily |-> Null, fontWeight |-> Null, fontSize |-> "12",
          letterSpacing |-> Null, lineHeightPx |-> Null]

\* C7: every projected node has only recognized keys, its box only the four
\* box keys, its style only the five style keys.
C7_UnrecognizedDropped ==
    Projected =>
      \A p \in Paths(simplified_data) :
        LET out == NodeAt(simplified_data, p)
        IN  /\ DOMAIN out \subseteq NodeKeys
            /\ Has(out, "absoluteBoundingBox") =>
                 DOMAIN out["absoluteBoundingBox"] \subseteq BBoxKeys
            /\ Has(out, "style") => DOMAIN out["style"] \subseteq StyleKeys

\* a TEXT node with an unrecognized attribute, an unrecognized box sub-field
\* and an unrecognized style sub-field has been projected
C7_Witness ==
    /\ Projected
    /\ Has(figma_node, "visible")
    /\ Get(figma_node, "type") = "TEXT"
    /\ Has(figma_node, "absoluteBoundingBox")
    /\ Has(figma_node["absoluteBoundingBox"], "rotation")
    /\ Has(figma_node, "style")
    /\ Has(figma_node["style"], "textAlignHorizontal")
    /\ ~Has(simplified_data, "visible")

\* C10: projecting the projected tree changes nothing.
C10_Idempotent ==
    Projected => simplify_node_data(simplified_data) = simplified_data

\* a nested tree with TEXT nodes, dropped attributes and filled-in nulls has
\* been projected
C10_Witness ==
    /\ Projected
    /\ Depth(figma_node) >= 2
    /\ simplified_data # figma_node
    /\ \E p \in BothPaths :
         /\ Has(NodeAt(simplified_data, p), "style")
         /\ NodeAt(simplified_data, p)["style"]["fontFamily"] = Null

-----------------------------------------------------------------------------
(* The run of main() *)

\* the steps of main() in the order of its code
PipelineOrder == <<"load_env_vars", "arguments", "fetch", "simplify",
                   "generate", "write">>

Unwritten == report_file \in {Absent, OldReport}

\* C8: strictly sequential, all-or-nothing run. The steps that have run are
\* the first steps of the pipeline, each once and in the pipeline's order;
\* every step before the last one run completed successfully; a failed step
\* is the last one, the run has then stopped with exit status 1, and unless
\* the failed step is the report write itself report.md is as it was before
\* the run; report.md is written only after all six steps.
C8_SequentialAllOrNothing ==
    /\ Len(log) <= Len(PipelineOrder)
    /\ \A i \in 1..Len(log) : log[i].stage = PipelineOrder[i]
    /\ \A i \in 1..(Len(log) - 1) : log[i].result = "ok"
    /\ (Len(log) > 0 /\ log[Len(log)].result = "failed") =>
          /\ pc = "exit"
          /\ exit_code = "1"
          /\ log[Len(log)].stage # "write" => Unwritten
    /\ (Len(log) > 0 /\ log[Len(log)].result = "ok") =>
          /\ exit_code = (IF Len(log) = Len(PipelineOrder) THEN "0" ELSE Null)
          /\ pc = (IF Len(log) = Len(PipelineOrder) THEN "done"
                   ELSE PipelineOrder[Len(log) + 1])
    /\ ~Unwritten => Len(log) = Len(PipelineOrder)
    /\ Did("write") => report_file = report_markdown
    /\ Did("simplify") => simplified_data = simplify_node_data(figma_node)

\* a run that fetched and projected a document has stopped at the failing
\* model call, leaving the earlier report in place
C8_Witness ==
    /\ pc = "exit"
    /\ exit_code = "1"
    /\ Did("fetch") /\ Did("simplify")
    /\ log[Len(log)] = [stage |-> "generate", result |-> "failed"]
    /\ report_file = OldReport

-----------------------------------------------------------------------------
(* The projector's call stack *)

\* C9: totality. The projection of a well-formed tree of any depth returns
\* without raising an error.
C9_Totality == walk.state # "RecursionError"

====
